---- MODULE Spec2Model ----
(***************************************************************************)
(* Model of scripts/validate-spec.py: the skill validator                  *)
(* (SkillValidator), the repository scanner (RepositoryValidator) and the  *)
(* exit code computed by main.                                             *)
(*                                                                         *)
(* Python strings are sequences of one-character strings.  A directory     *)
(* tree is a record tree; a directory lists its entries in the order       *)
(* iterdir() yields them.  The YAML library is outside the repository: a   *)
(* file carries, next to its text, the outcome yaml.safe_load has on its   *)
(* frontmatter text.                                                       *)
(***************************************************************************)
EXTENDS Integers, Sequences, FiniteSets, TLC

VARIABLES pc, root, strict, skill_dirs, idx, errors, warnings, exit_code,
          self, arg, ret

vars == <<pc, root, strict, skill_dirs, idx, errors, warnings, exit_code,
          self, arg, ret>>

(***************************************************************************)
(* Python string primitives                                                *)
(***************************************************************************)
\* s[a:b] with 0 <= a, b <= len(s)
Slice(s, a, b) == IF a >= b THEN <<>> ELSE SubSeq(s, a + 1, b)

\* s.startswith(p)
StartsWith(s, p) == Len(p) <= Len(s) /\ SubSeq(s, 1, Len(p)) = p

\* s.endswith(p)
EndsWith(s, p) == Len(p) <= Len(s) /\ SubSeq(s, Len(s) - Len(p) + 1, Len(s)) = p

\* sub occurs in s at 0-based index i
OccursAt(s, sub, i) == SubSeq(s, i + 1, i + Len(sub)) = sub

\* s.find(sub, start): lowest 0-based index >= start, or -1
Find(s, sub, start) ==
    LET range == start..(Len(s) - Len(sub))
    IN IF \E i \in range : OccursAt(s, sub, i)
       THEN CHOOSE i \in range :
                OccursAt(s, sub, i) /\ \A j \in start..(i - 1) : ~OccursAt(s, sub, j)
       ELSE -1

\* sub in s
Contains(s, sub) == \E i \in 0..(Len(s) - Len(sub)) : OccursAt(s, sub, i)

\* s.split(sep) for a one-character separator.  The pieces between the
\* separators, left to right; the text is cut at the separator nearest to
\* its middle first, which keeps the recursion shallow on long texts.
RECURSIVE Split(_, _)
Split(s, sep) ==
    LET mid == (Len(s) \div 2) + 1
        right == {i \in mid..Len(s) : s[i] = sep}
        left == {i \in 1..(mid - 1) : s[i] = sep}
        p == IF right # {}
             THEN CHOOSE i \in mid..Len(s) : s[i] = sep /\ \A j \in mid..(i - 1) : s[j] # sep
             ELSE CHOOSE i \in 1..(mid - 1) : s[i] = sep /\ \A j \in (i + 1)..(mid - 1) : s[j] # sep
    IN IF right = {} /\ left = {} THEN <<s>>
       ELSE Split(SubSeq(s, 1, p - 1), sep) \o Split(SubSeq(s, p + 1, Len(s)), sep)

Upper == <<"A","B","C","D","E","F","G","H","I","J","K","L","M",
           "N","O","P","Q","R","S","T","U","V","W","X","Y","Z">>
LowerLetters == <<"a","b","c","d","e","f","g","h","i","j","k","l","m",
                  "n","o","p","q","r","s","t","u","v","w","x","y","z">>
Digits == {"0","1","2","3","4","5","6","7","8","9"}
Whitespace == {" ", "\t", "\n", "\r", "\f"}

LowerChar(c) ==
    IF \E i \in 1..26 : Upper[i] = c
    THEN LowerLetters[CHOOSE i \in 1..26 : Upper[i] = c]
    ELSE c

\* s.lower()
Lower(s) == [i \in 1..Len(s) |-> LowerChar(s[i])]

\* not s.strip()
StripIsEmpty(s) == \A i \in 1..Len(s) : s[i] \in Whitespace

\* re.match(r'^[a-z0-9-]+$', name): one or more characters of the class, then
\* the end of the string or a single newline that ends the string.
NameClass == {LowerLetters[i] : i \in 1..26} \cup Digits \cup {"-"}

AllInClass(s) == Len(s) >= 1 /\ \A i \in 1..Len(s) : s[i] \in NameClass

NamePattern(name) ==
    \/ AllInClass(name)
    \/ /\ Len(name) >= 2
       /\ name[Len(name)] = "\n"
       /\ AllInClass(SubSeq(name, 1, Len(name) - 1))

\* n copies of the character c
Repeat(c, n) == [i \in 1..n |-> c]

(***************************************************************************)
(* Module constants                                                        *)
(***************************************************************************)
S_anthropic == <<"a","n","t","h","r","o","p","i","c">>
S_claude == <<"c","l","a","u","d","e">>
S_scripts == <<"s","c","r","i","p","t","s">>
S_references == <<"r","e","f","e","r","e","n","c","e","s">>
S_assets == <<"a","s","s","e","t","s">>
S_SKILL_MD == <<"S","K","I","L","L",".","m","d">>

RESERVED_WORDS == <<S_anthropic, S_claude>>
ALLOWED_SKILL_DIRS == {S_scripts, S_references, S_assets}
MAX_NAME_LENGTH == 64
MAX_DESCRIPTION_LENGTH == 1024
MAX_SKILL_LINES == 500

(***************************************************************************)
(* Values                                                                  *)
(***************************************************************************)
\* A Python value as far as the validator looks at it: its type name and,
\* for a str, its characters.
Str(s) == [t |-> "str", s |-> s]
NonStr(t) == [t |-> t, s |-> <<>>]

EmptyMap == [k \in {} |-> NonStr("NoneType")]

\* Outcomes of yaml.safe_load on a frontmatter text.
YamlRaise == [kind |-> "raise", t |-> "", map |-> EmptyMap]
YamlValue(t) == [kind |-> "value", t |-> t, map |-> EmptyMap]
YamlDict(m) == [kind |-> "value", t |-> "dict", map |-> m]

\* File system nodes.
File(name, content, yaml) ==
    [name |-> name, kind |-> "file", content |-> content, yaml |-> yaml, entries |-> <<>>]
Dir(name, entries) ==
    [name |-> name, kind |-> "dir", content |-> <<>>, yaml |-> YamlRaise, entries |-> entries]

\* (d / name).exists()
HasEntry(d, name) == \E i \in 1..Len(d.entries) : d.entries[i].name = name
Entry(d, name) == d.entries[CHOOSE i \in 1..Len(d.entries) : d.entries[i].name = name]

\* (d / path).exists() for a relative path of plain names
RECURSIVE ResolveExists(_, _)
ResolveExists(node, comps) ==
    IF comps = <<>> THEN TRUE
    ELSE IF Head(comps) = <<>> \/ Head(comps) = <<".">> THEN
        node.kind = "dir" /\ ResolveExists(node, Tail(comps))
    ELSE /\ node.kind = "dir"
         /\ HasEntry(node, Head(comps))
         /\ ResolveExists(Entry(node, Head(comps)), Tail(comps))

PathExists(d, path) == ResolveExists(d, Split(path, "/"))

(***************************************************************************)
(* ValidationError and SkillValidator                                      *)
(***************************************************************************)
ValidationError(level, message, file_path) ==
    [level |-> level, message |-> message, file_path |-> file_path]

\* A skill directory handed to SkillValidator: its path and the directory.
SkillDir(path, node) == [path |-> path, node |-> node]

\* Path.name
PathName(path) == path[Len(path)]

\* SkillValidator.__init__
SkillValidator(skill_dir) == [skill_dir |-> skill_dir, errors |-> <<>>, warnings |-> <<>>]

skill_md(v) == Append(v.skill_dir.path, S_SKILL_MD)

error(v, message) ==
    [v EXCEPT !.errors = Append(@, ValidationError("error", message, skill_md(v)))]

warning(v, message) ==
    [v EXCEPT !.warnings = Append(@, ValidationError("warning", message, skill_md(v)))]

(***************************************************************************)
(* Diagnostic messages: the format string and the values put into it       *)
(***************************************************************************)
Msg(id) == [id |-> id, text |-> <<>>, t |-> "", n |-> 0]
MsgText(id, text) == [id |-> id, text |-> text, t |-> "", n |-> 0]
MsgType(id, t) == [id |-> id, text |-> <<>>, t |-> t, n |-> 0]
MsgNum(id, n) == [id |-> id, text |-> <<>>, t |-> "", n |-> n]

GERUND_PREFIXES == <<<<"a","n","a","l","y","z","i","n","g">>,
    <<"d","i","a","g","n","o","s","i","n","g">>,
    <<"m","i","g","r","a","t","i","n","g">>,
    <<"o","p","t","i","m","i","z","i","n","g">>,
    <<"c","o","n","f","i","g","u","r","i","n","g">>,
    <<"i","m","p","l","e","m","e","n","t","i","n","g">>,
    <<"t","u","n","i","n","g">>,
    <<"v","a","l","i","d","a","t","i","n","g">>,
    <<"p","l","a","n","n","i","n","g">>>>
TRIGGER_KEYWORDS == <<<<"u","s","e"," ","w","h","e","n">>,
    <<"w","h","e","n">>,
    <<"i","f"," ","y","o","u">>,
    <<"f","o","r">>,
    <<"h","e","l","p","s">>,
    <<"g","u","i","d","e","s">>>>
FIRST_PERSON_WORDS == <<<<"i"," ">>, <<"w","e"," ">>, <<"m","y"," ">>, <<"o","u","r"," ">>>>
LINK_SKIP_PREFIXES == <<<<"h","t","t","p",":","/","/">>,
    <<"h","t","t","p","s",":","/","/">>,
    <<"#">>,
    <<"m","a","i","l","t","o",":">>>>

\* any(pred(x) for x in a list), for the three shapes the code uses
AnyPrefix(s, list) == \E i \in 1..Len(list) : StartsWith(s, list[i])
AnyIn(s, list) == \E i \in 1..Len(list) : Contains(s, list[i])

(***************************************************************************)
(* SkillValidator._parse_skill_md                                          *)
(***************************************************************************)
None == [none |-> TRUE, map |-> EmptyMap]
Some(m) == [none |-> FALSE, map |-> m]

Parsed(v, frontmatter, body, frontmatter_text) ==
    [v |-> v, frontmatter |-> frontmatter, body |-> body,
     frontmatter_text |-> frontmatter_text]

OPEN_DELIM == <<"-","-","-","\n">>
CLOSE_DELIM == <<"\n","-","-","-","\n">>

_parse_skill_md(v) ==
    LET f == Entry(v.skill_dir.node, S_SKILL_MD)
        content == f.content
        end_delimiter == Find(content, CLOSE_DELIM, 4)
        frontmatter_text == Slice(content, 4, end_delimiter)
        body == Slice(content, end_delimiter + 5, Len(content))
    IN IF f.kind # "file" THEN
           Parsed(error(v, Msg("Failed to read SKILL.md")), None, <<>>, <<>>)
       ELSE IF ~StartsWith(content, OPEN_DELIM) THEN
           Parsed(error(v, Msg("SKILL.md must start with YAML frontmatter (---)")),
                  None, content, <<>>)
       ELSE IF end_delimiter = -1 THEN
           Parsed(error(v, Msg("SKILL.md frontmatter not properly closed (missing closing ---)")),
                  None, content, <<>>)
       ELSE IF f.yaml.kind = "raise" THEN
           Parsed(error(v, Msg("Invalid YAML in frontmatter")), None, body, frontmatter_text)
       ELSE IF f.yaml.t # "dict" THEN
           Parsed(error(v, Msg("SKILL.md frontmatter must be a YAML dictionary")),
                  None, body, frontmatter_text)
       ELSE Parsed(v, Some(f.yaml.map), body, frontmatter_text)

(***************************************************************************)
(* SkillValidator._validate_directory_structure                            *)
(***************************************************************************)
\* Variant: the is_dir() test is left out, every entry is looked at
RECURSIVE DirectoryLoop_any_entry(_, _, _)
DirectoryLoop_any_entry(v, items, i) ==
    IF i > Len(items) THEN v
    ELSE IF items[i].name \notin ALLOWED_SKILL_DIRS
         THEN DirectoryLoop_any_entry(error(v, MsgText("Unexpected directory", items[i].name)),
                                      items, i + 1)
         ELSE DirectoryLoop_any_entry(v, items, i + 1)

_validate_directory_structure_any_entry(v) ==
    DirectoryLoop_any_entry(v, v.skill_dir.node.entries, 1)

RECURSIVE DirectoryLoop(_, _, _)
DirectoryLoop(v, items, i) ==
    IF i > Len(items) THEN v
    ELSE IF items[i].kind = "dir" /\ items[i].name \notin ALLOWED_SKILL_DIRS
         THEN DirectoryLoop(error(v, MsgText("Unexpected directory", items[i].name)), items, i + 1)
         ELSE DirectoryLoop(v, items, i + 1)

_validate_directory_structure(v) == DirectoryLoop(v, v.skill_dir.node.entries, 1)

(***************************************************************************)
(* SkillValidator._validate_name                                           *)
(***************************************************************************)
RECURSIVE ReservedLoop(_, _, _)
ReservedLoop(v, name, i) ==
    IF i > Len(RESERVED_WORDS) THEN v
    ELSE IF Contains(name, RESERVED_WORDS[i])
         THEN ReservedLoop(error(v, MsgText("Skill name cannot contain reserved word",
                                            RESERVED_WORDS[i])), name, i + 1)
         ELSE ReservedLoop(v, name, i + 1)

\* Variant: the length check uses >= instead of >
_validate_name_ge(v, value) ==
    IF value.t # "str" THEN error(v, MsgType("Skill name must be a string, got", value.t))
    ELSE
    LET name == value.s
        v1 == IF Len(name) >= MAX_NAME_LENGTH
              THEN error(v, MsgNum("Skill name exceeds maximum length", Len(name)))
              ELSE v
        v2 == IF ~NamePattern(name)
              THEN error(v1, Msg("Skill name must contain only lowercase letters, numbers, and hyphens"))
              ELSE v1
        v3 == ReservedLoop(v2, name, 1)
        v4 == IF Contains(name, <<"<">>) \/ Contains(name, <<">">>)
              THEN error(v3, Msg("Skill name cannot contain XML tags"))
              ELSE v3
        v5 == IF name # PathName(v.skill_dir.path)
              THEN error(v4, MsgText("Skill name does not match directory name", name))
              ELSE v4
    IN IF ~EndsWith(name, <<"i","n","g">>) /\ ~AnyPrefix(name, GERUND_PREFIXES)
       THEN warning(v5, MsgText("Consider using gerund form (verb-ing) for skill name", name))
       ELSE v5

_validate_name(v, value) ==
    IF value.t # "str" THEN error(v, MsgType("Skill name must be a string, got", value.t))
    ELSE
    LET name == value.s
        v1 == IF Len(name) > MAX_NAME_LENGTH
              THEN error(v, MsgNum("Skill name exceeds maximum length", Len(name)))
              ELSE v
        v2 == IF ~NamePattern(name)
              THEN error(v1, Msg("Skill name must contain only lowercase letters, numbers, and hyphens"))
              ELSE v1
        v3 == ReservedLoop(v2, name, 1)
        v4 == IF Contains(name, <<"<">>) \/ Contains(name, <<">">>)
              THEN error(v3, Msg("Skill name cannot contain XML tags"))
              ELSE v3
        v5 == IF name # PathName(v.skill_dir.path)
              THEN error(v4, MsgText("Skill name does not match directory name", name))
              ELSE v4
    IN IF ~EndsWith(name, <<"i","n","g">>) /\ ~AnyPrefix(name, GERUND_PREFIXES)
       THEN warning(v5, MsgText("Consider using gerund form (verb-ing) for skill name", name))
       ELSE v5

(***************************************************************************)
(* SkillValidator._validate_description                                    *)
(***************************************************************************)
\* Variant: the XML check is an elif of the length check
_validate_description_elif(v, value) ==
    IF value.t # "str" THEN error(v, MsgType("Skill description must be a string, got", value.t))
    ELSE IF StripIsEmpty(value.s) THEN error(v, Msg("Skill description cannot be empty"))
    ELSE
    LET description == value.s
        v2 == IF Len(description) > MAX_DESCRIPTION_LENGTH
              THEN error(v, MsgNum("Skill description exceeds maximum length", Len(description)))
              ELSE IF Contains(description, <<"<">>) \/ Contains(description, <<">">>)
              THEN error(v, Msg("Skill description cannot contain XML tags"))
              ELSE v
        has_trigger == AnyIn(Lower(description), TRIGGER_KEYWORDS)
        v3 == IF ~has_trigger
              THEN warning(v2, Msg("Description should include clear 'when to use' triggers"))
              ELSE v2
        v4 == IF AnyIn(Lower(description), FIRST_PERSON_WORDS)
              THEN warning(v3, Msg("Description should use third person"))
              ELSE v3
    IN IF Len(Split(description, ".")) < 2
       THEN warning(v4, Msg("Description should include both WHAT the skill does and WHEN to use it"))
       ELSE v4

_validate_description(v, value) ==
    IF value.t # "str" THEN error(v, MsgType("Skill description must be a string, got", value.t))
    ELSE IF StripIsEmpty(value.s) THEN error(v, Msg("Skill description cannot be empty"))
    ELSE
    LET description == value.s
        v1 == IF Len(description) > MAX_DESCRIPTION_LENGTH
              THEN error(v, MsgNum("Skill description exceeds maximum length", Len(description)))
              ELSE v
        v2 == IF Contains(description, <<"<">>) \/ Contains(description, <<">">>)
              THEN error(v1, Msg("Skill description cannot contain XML tags"))
              ELSE v1
        has_trigger == AnyIn(Lower(description), TRIGGER_KEYWORDS)
        v3 == IF ~has_trigger
              THEN warning(v2, Msg("Description should include clear 'when to use' triggers"))
              ELSE v2
        v4 == IF AnyIn(Lower(description), FIRST_PERSON_WORDS)
              THEN warning(v3, Msg("Description should use third person"))
              ELSE v3
    IN IF Len(Split(description, ".")) < 2
       THEN warning(v4, Msg("Description should include both WHAT the skill does and WHEN to use it"))
       ELSE v4

(***************************************************************************)
(* SkillValidator._validate_license, _validate_compatibility               *)
(***************************************************************************)
_validate_license(v, license_value) ==
    IF license_value.t # "str"
    THEN error(v, MsgType("'license' field must be a string, got", license_value.t))
    ELSE v

_validate_compatibility(v, compatibility) ==
    IF compatibility.t # "str"
    THEN error(v, MsgType("'compatibility' field must be a string, got", compatibility.t))
    ELSE v

(***************************************************************************)
(* SkillValidator._validate_frontmatter                                    *)
(***************************************************************************)
\* Variant: the name is validated before the description is looked for
_validate_frontmatter_late_check(v, frontmatter) ==
    IF "name" \notin DOMAIN frontmatter
    THEN error(v, Msg("Missing required field 'name' in frontmatter"))
    ELSE IF "description" \notin DOMAIN frontmatter
    THEN error(_validate_name(v, frontmatter["name"]),
               Msg("Missing required field 'description' in frontmatter"))
    ELSE
    LET v1 == _validate_name(v, frontmatter["name"])
        v2 == _validate_description(v1, frontmatter["description"])
        v3 == IF "license" \in DOMAIN frontmatter
              THEN _validate_license(v2, frontmatter["license"]) ELSE v2
        v4 == IF "compatibility" \in DOMAIN frontmatter
              THEN _validate_compatibility(v3, frontmatter["compatibility"]) ELSE v3
    IN IF "metadata" \in DOMAIN frontmatter /\ frontmatter["metadata"].t # "dict"
       THEN error(v4, Msg("'metadata' field must be a dictionary"))
       ELSE v4

_validate_frontmatter(v, frontmatter) ==
    IF "name" \notin DOMAIN frontmatter
    THEN error(v, Msg("Missing required field 'name' in frontmatter"))
    ELSE IF "description" \notin DOMAIN frontmatter
    THEN error(v, Msg("Missing required field 'description' in frontmatter"))
    ELSE
    LET v1 == _validate_name(v, frontmatter["name"])
        v2 == _validate_description(v1, frontmatter["description"])
        v3 == IF "license" \in DOMAIN frontmatter
              THEN _validate_license(v2, frontmatter["license"]) ELSE v2
        v4 == IF "compatibility" \in DOMAIN frontmatter
              THEN _validate_compatibility(v3, frontmatter["compatibility"]) ELSE v3
    IN IF "metadata" \in DOMAIN frontmatter /\ frontmatter["metadata"].t # "dict"
       THEN error(v4, Msg("'metadata' field must be a dictionary"))
       ELSE v4

(***************************************************************************)
(* SkillValidator._validate_content                                        *)
(***************************************************************************)
\* First 1-based position >= from of character c in line, or 0
FirstAt(line, c, from) ==
    IF \E i \in from..Len(line) : line[i] = c
    THEN CHOOSE i \in from..Len(line) : line[i] = c /\ \A j \in from..(i - 1) : line[j] # c
    ELSE 0

\* re.findall(r'\[([^\]]+)\]\(([^)]+)\)', line), scanning from position i:
\* the link paths (second group) of the non-overlapping matches, left to right
RECURSIVE FindLinks(_, _)
FindLinks(line, i) ==
    IF i > Len(line) THEN <<>>
    ELSE
    LET j == FirstAt(line, "]", i + 1)
        k == FirstAt(line, ")", j + 2)
        matches == /\ line[i] = "["
                   /\ j > i + 1
                   /\ j + 1 <= Len(line)
                   /\ line[j + 1] = "("
                   /\ k > j + 2
    IN IF matches
       THEN <<SubSeq(line, j + 2, k - 1)>> \o FindLinks(line, k + 1)
       ELSE FindLinks(line, i + 1)

RECURSIVE LinkLoop(_, _, _)
LinkLoop(v, links, i) ==
    IF i > Len(links) THEN v
    ELSE IF ~AnyPrefix(links[i], LINK_SKIP_PREFIXES)
            /\ ~PathExists(v.skill_dir.node, links[i])
         THEN LinkLoop(warning(v, MsgText("Broken internal reference", links[i])), links, i + 1)
         ELSE LinkLoop(v, links, i + 1)

\* The matches of all lines[lo..hi], line by line and left to right
RECURSIVE LineLoop(_, _, _)
LineLoop(lines, lo, hi) ==
    IF lo > hi THEN <<>>
    ELSE IF lo = hi THEN FindLinks(lines[lo], 1)
    ELSE LineLoop(lines, lo, (lo + hi) \div 2) \o LineLoop(lines, ((lo + hi) \div 2) + 1, hi)

_validate_content(v, body) ==
    LET lines == Split(body, "\n")
        v1 == IF Len(lines) > MAX_SKILL_LINES
              THEN warning(v, MsgNum("SKILL.md has more lines than recommended", Len(lines)))
              ELSE v
    IN LinkLoop(v1, LineLoop(lines, 1, Len(lines)), 1)

(***************************************************************************)
(* SkillValidator.validate                                                 *)
(***************************************************************************)
\* Variant: the directory structure is checked before the frontmatter result
\* is looked at
validate_dirs_first(v) ==
    IF ~HasEntry(v.skill_dir.node, S_SKILL_MD)
    THEN error(v, Msg("Missing required SKILL.md file in"))
    ELSE
    LET p == _parse_skill_md(v)
    IN IF p.frontmatter.none THEN _validate_directory_structure(p.v)
       ELSE _validate_content(
                _validate_frontmatter(_validate_directory_structure(p.v), p.frontmatter.map),
                p.body)

validate(v) ==
    IF ~HasEntry(v.skill_dir.node, S_SKILL_MD)
    THEN error(v, Msg("Missing required SKILL.md file in"))
    ELSE
    LET p == _parse_skill_md(v)
    IN IF p.frontmatter.none THEN p.v
       ELSE _validate_content(
                _validate_frontmatter(_validate_directory_structure(p.v), p.frontmatter.map),
                p.body)

(***************************************************************************)
(* RepositoryValidator                                                     *)
(***************************************************************************)
IsHidden(name) == StartsWith(name, <<".">>)

\* inner loop of _find_skill_directories over domain_dir.iterdir()
RECURSIVE SkillLoop(_, _, _, _)
SkillLoop(skill_dirs_, domain_path, items, j) ==
    IF j > Len(items) THEN skill_dirs_
    ELSE IF items[j].kind # "dir" THEN SkillLoop(skill_dirs_, domain_path, items, j + 1)
    ELSE IF IsHidden(items[j].name) THEN SkillLoop(skill_dirs_, domain_path, items, j + 1)
    ELSE IF HasEntry(items[j], S_SKILL_MD)
         THEN SkillLoop(Append(skill_dirs_, SkillDir(Append(domain_path, items[j].name), items[j])),
                        domain_path, items, j + 1)
         ELSE SkillLoop(skill_dirs_, domain_path, items, j + 1)

\* outer loop of _find_skill_directories over self.skills_dir.iterdir()
RECURSIVE DomainLoop(_, _, _, _)
DomainLoop(skill_dirs_, path, items, i) ==
    IF i > Len(items) THEN skill_dirs_
    ELSE IF items[i].kind # "dir" THEN DomainLoop(skill_dirs_, path, items, i + 1)
    ELSE IF IsHidden(items[i].name) THEN DomainLoop(skill_dirs_, path, items, i + 1)
    ELSE DomainLoop(SkillLoop(skill_dirs_, Append(path, items[i].name), items[i].entries, 1),
                    path, items, i + 1)

\* Variant: a root with SKILL.md is a skill, and its domains are scanned too
_find_skill_directories_keep_scanning(skills_dir) ==
    DomainLoop(IF HasEntry(skills_dir.node, S_SKILL_MD) THEN <<skills_dir>> ELSE <<>>,
               skills_dir.path, skills_dir.node.entries, 1)

_find_skill_directories(skills_dir) ==
    IF HasEntry(skills_dir.node, S_SKILL_MD) THEN <<skills_dir>>
    ELSE DomainLoop(<<>>, skills_dir.path, skills_dir.node.entries, 1)

\* Variant: the is_dir() test is left out
RootErrors_no_isdir(skills_dir) ==
    IF skills_dir.node.kind = "missing"
    THEN <<ValidationError("error", Msg("Skills directory not found"), <<>>)>>
    ELSE <<>>

\* The early returns of RepositoryValidator.validate: the error list returned
\* when the root is unusable, <<>> when validation goes on.
RootErrors(skills_dir) ==
    IF skills_dir.node.kind = "missing"
    THEN <<ValidationError("error", Msg("Skills directory not found"), <<>>)>>
    ELSE IF skills_dir.node.kind # "dir"
    THEN <<ValidationError("error", Msg("Path is not a directory"), <<>>)>>
    ELSE <<>>

\* Variant: nothing is added once the list holds something
extend_first_only(list, items) == IF list # <<>> THEN list ELSE list \o items

\* list.extend
extend(list, items) == list \o items

Result(errs, warns) == [errors |-> errs, warnings |-> warns]

\* Variant: --strict is ignored
main_exit_code_no_strict(errs, warns, strict_) ==
    IF errs = <<>> /\ warns = <<>> THEN 0
    ELSE IF errs # <<>> THEN 1
    ELSE 0

\* The exit code main returns for the result of validate() and --strict
main_exit_code(errs, warns, strict_) ==
    IF errs = <<>> /\ warns = <<>> THEN 0
    ELSE IF errs # <<>> THEN 1
    ELSE IF strict_ /\ warns # <<>> THEN 1
    ELSE 0

(***************************************************************************)
(* Bounds of the model                                                     *)
(***************************************************************************)
MaxDomains == 2
MaxKids == 2
MaxEntries == 2
MaxContentLen == 10
MaxNameLen == 2
MaxDescLen == 3

SeqsUpTo(S, n) == UNION {[1..k -> S] : k \in 0..n}

\* Directory listings: sequences of nodes with pairwise different names
RECURSIVE Listings(_, _)
Listings(S, n) ==
    IF n = 0 THEN {<<>>}
    ELSE LET shorter == Listings(S, n - 1)
         IN shorter \cup
            UNION {{Append(l, x) : x \in {y \in S : \A i \in 1..Len(l) : l[i].name # y.name}}
                   : l \in {k \in shorter : Len(k) = n - 1}}

(***************************************************************************)
(* Sample directory trees                                                  *)
(***************************************************************************)
N_tuning == <<"t","u","n","i","n","g">>
N_foo_bar == <<"f","o","o","-","b","a","r">>

D_good == <<"U","s","e"," ","w","h","e","n"," ","x","."," ","y">>
D_plain == <<"D","o","e","s"," ","x">>

C_no_open == <<"x","\n">>
C_not_closed == <<"-","-","-","\n","x","\n">>
C_empty_body == <<"-","-","-","\n","x","\n","-","-","-","\n">>
C_links == <<"-","-","-","\n","x","\n","-","-","-","\n","[","a","]","(","t","m","p",")","\n","[","b","]","(","n","o",")"," ","[","c","]","(","#","f",")"," ","[","d","]","(","n","o","t","e","s","/",")","\n","y">>
C_long == C_empty_body \o Repeat("\n", MAX_SKILL_LINES)

SkillMd(content, yaml) == File(S_SKILL_MD, content, yaml)

GoodYaml(name) == YamlDict([k \in {"name", "description"} |->
                              IF k = "name" THEN Str(name) ELSE Str(D_good)])

\* A skill without any diagnostic, one with warnings only, one with one error,
\* one with errors and warnings
SkillTuning == Dir(N_tuning, <<SkillMd(C_empty_body, GoodYaml(N_tuning)), Dir(S_scripts, <<>>)>>)
SkillFooBar == Dir(N_foo_bar, <<SkillMd(C_empty_body, GoodYaml(N_foo_bar))>>)
SkillBad == Dir(<<"b","a","d">>, <<SkillMd(C_no_open, GoodYaml(<<"b","a","d">>))>>)
SkillExtra == Dir(<<"e","x","t","r","a">>,
                  <<Dir(<<"t","m","p">>, <<>>), Dir(<<"o","l","d">>, <<>>),
                    SkillMd(C_links, GoodYaml(N_tuning))>>)
\* Not skills: a hidden directory with SKILL.md, a directory whose only
\* SKILL.md lies one level deeper, a SKILL.md file
HiddenSkill == Dir(<<".","s">>, <<SkillMd(C_empty_body, GoodYaml(<<".","s">>))>>)
DeepSkill == Dir(<<"d","e","e","p">>, <<SkillTuning>>)
PlainSkillMd == SkillMd(C_empty_body, GoodYaml(<<"s","k","i","l","l","s">>))

KidOptions == {SkillTuning, SkillFooBar, SkillExtra, HiddenSkill, DeepSkill, PlainSkillMd}

DomainOptions ==
    {Dir(<<"d">>, ks) : ks \in Listings(KidOptions, MaxKids)}
    \cup {Dir(<<"e">>, <<SkillBad, SkillFooBar>>),
          Dir(<<".","h">>, <<SkillTuning>>),
          File(<<"R","E","A","D","M","E">>, <<>>, YamlRaise),
          PlainSkillMd}

RootPath == <<<<"s","k","i","l","l","s">>>>
MissingNode == [name |-> PathName(RootPath), kind |-> "missing", content |-> <<>>,
                yaml |-> YamlRaise, entries |-> <<>>]

Roots ==
    {SkillDir(RootPath, MissingNode),
     SkillDir(RootPath, File(PathName(RootPath), <<>>, YamlRaise))}
    \cup {SkillDir(RootPath, Dir(PathName(RootPath), ds)) : ds \in Listings(DomainOptions, MaxDomains)}

(***************************************************************************)
(* Specification of a run of main on a path                                *)
(***************************************************************************)
NoValidator == SkillValidator(SkillDir(<<>>, MissingNode))
Arg(field, value, map) == [field |-> field, value |-> value, map |-> map]
NoArg == Arg("", NonStr("NoneType"), EmptyMap)
NoRet == Result(<<>>, <<>>)

Init ==
    /\ pc = "start"
    /\ root \in Roots
    /\ strict \in BOOLEAN
    /\ skill_dirs = <<>>
    /\ idx = 0
    /\ errors = <<>>
    /\ warnings = <<>>
    /\ exit_code = -1
    /\ self = NoValidator
    /\ arg = NoArg
    /\ ret = NoRet

\* RepositoryValidator.validate, up to the call of _find_skill_directories
CheckRoot ==
    /\ pc = "start"
    /\ IF RootErrors(root) # <<>>
       THEN /\ ret' = Result(RootErrors(root), <<>>)
            /\ pc' = "main"
       ELSE /\ ret' = ret
            /\ pc' = "find"
    /\ UNCHANGED <<root, strict, skill_dirs, idx, errors, warnings, exit_code, self, arg>>

\* skill_dirs = self._find_skill_directories(), and the return on an empty list
FindSkillDirectories ==
    /\ pc = "find"
    /\ skill_dirs' = _find_skill_directories(root)
    /\ IF skill_dirs' = <<>>
       THEN /\ ret' = Result(<<>>, <<>>)
            /\ pc' = "main"
            /\ idx' = idx
       ELSE /\ ret' = ret
            /\ pc' = "loop"
            /\ idx' = 1
    /\ UNCHANGED <<root, strict, errors, warnings, exit_code, self, arg>>

\* One iteration of the loop over skill_dirs
ValidateSkill ==
    /\ pc = "loop"
    /\ idx <= Len(skill_dirs)
    /\ self' = validate(SkillValidator(skill_dirs[idx]))
    /\ errors' = extend(errors, self'.errors)
    /\ warnings' = extend(warnings, self'.warnings)
    /\ idx' = idx + 1
    /\ UNCHANGED <<pc, root, strict, skill_dirs, exit_code, arg, ret>>

\* return self.errors, self.warnings
ReturnResults ==
    /\ pc = "loop"
    /\ idx > Len(skill_dirs)
    /\ ret' = Result(errors, warnings)
    /\ pc' = "main"
    /\ UNCHANGED <<root, strict, skill_dirs, idx, errors, warnings, exit_code, self, arg>>

\* main, after validator.validate() has returned
Main ==
    /\ pc = "main"
    /\ exit_code' = main_exit_code(ret.errors, ret.warnings, strict)
    /\ pc' = "done"
    /\ UNCHANGED <<root, strict, skill_dirs, idx, errors, warnings, self, arg, ret>>

Next == CheckRoot \/ FindSkillDirectories \/ ValidateSkill \/ ReturnResults \/ Main

Spec == Init /\ [][Next]_vars

(***************************************************************************)
(* Specification of SkillValidator(skill_dir).validate() on one directory  *)
(***************************************************************************)
N_My == <<"M","y">>

NameFieldValues == {Str(N_tuning), Str(N_My), NonStr("int")}
DescriptionFieldValues == {Str(D_good), Str(D_plain), Str(<<" ">>), NonStr("int")}
LicenseFieldValues == {Str(<<"M","I","T">>), NonStr("int")}
CompatibilityFieldValues == {Str(<<"v","2","5">>), NonStr("list")}
MetadataFieldValues == {NonStr("dict"), Str(<<"x">>)}

FieldValues(k) ==
    CASE k = "name" -> NameFieldValues
      [] k = "description" -> DescriptionFieldValues
      [] k = "license" -> LicenseFieldValues
      [] k = "compatibility" -> CompatibilityFieldValues
      [] k = "metadata" -> MetadataFieldValues
      [] OTHER -> {Str(<<"x">>)}

FieldKeys == {"name", "description", "license", "compatibility", "metadata", "author"}
OptionalKeys == {"license", "compatibility", "metadata", "author"}

\* The mappings yaml.safe_load may return in the model
FrontmatterMaps ==
    UNION {{m \in [K -> UNION {FieldValues(k) : k \in K}] : \A k \in K : m[k] \in FieldValues(k)}
           : K \in SUBSET FieldKeys}

\* For whole-skill runs: the optional fields all absent, or all present and
\* (apart from the unknown key) all of the right type or all of the wrong one
SkillMaps ==
    {m \in FrontmatterMaps :
        \/ DOMAIN m \cap OptionalKeys = {}
        \/ /\ OptionalKeys \subseteq DOMAIN m
           /\ \/ m["license"].t = "str" /\ m["compatibility"].t = "str" /\ m["metadata"].t = "dict"
              \/ m["license"].t # "str" /\ m["compatibility"].t # "str" /\ m["metadata"].t # "dict"}

YamlSamples ==
    {YamlRaise, YamlValue("list"), YamlValue("NoneType"), YamlValue("str")}
    \cup {YamlDict(m) : m \in SkillMaps}

ContentSamples == {C_no_open, C_not_closed, C_empty_body, C_links}

EntryOptions ==
    {Dir(S_scripts, <<>>), Dir(S_references, <<>>), Dir(S_assets, <<>>),
     Dir(<<"t","m","p">>, <<>>), Dir(<<"o","l","d">>, <<>>),
     Dir(<<"n","o","t","e","s">>, <<>>), File(<<"n","o">>, <<>>, YamlRaise)}

SkillMdOptions ==
    {<<>>, <<Dir(S_SKILL_MD, <<>>)>>}
    \cup {<<SkillMd(c, y)>> : c \in ContentSamples, y \in YamlSamples}
    \cup {<<SkillMd(C_long, y)>> : y \in {YamlRaise, GoodYaml(N_tuning), GoodYaml(N_foo_bar)}}

SkillInputs ==
    {SkillDir(<<PathName(RootPath), <<"d">>, n>>, Dir(n, md \o es)) :
        n \in {N_tuning, N_foo_bar}, md \in SkillMdOptions,
        es \in Listings(EntryOptions, MaxEntries)}

Pinned ==
    /\ root = SkillDir(RootPath, MissingNode)
    /\ strict = FALSE
    /\ skill_dirs = <<>>
    /\ idx = 0
    /\ errors = <<>>
    /\ warnings = <<>>
    /\ exit_code = -1

InitSkill ==
    /\ pc = "call"
    /\ Pinned
    /\ self \in {SkillValidator(d) : d \in SkillInputs}
    /\ arg = NoArg
    /\ ret = NoRet

Validate ==
    /\ pc = "call"
    /\ self' = validate(self)
    /\ ret' = Result(self'.errors, self'.warnings)
    /\ pc' = "return"
    /\ UNCHANGED <<root, strict, skill_dirs, idx, errors, warnings, exit_code, arg>>

NextSkill == Validate

SpecSkill == InitSkill /\ [][NextSkill]_vars

(***************************************************************************)
(* Specification of _validate_frontmatter on a parsed mapping              *)
(***************************************************************************)
PlainSkillDir(n) == SkillDir(<<PathName(RootPath), <<"d">>, n>>, Dir(n, <<>>))

InitFrontmatter ==
    /\ pc = "call"
    /\ Pinned
    /\ self = SkillValidator(PlainSkillDir(N_tuning))
    /\ arg \in {Arg("frontmatter", NonStr("dict"), m) : m \in FrontmatterMaps}
    /\ ret = NoRet

ValidateFrontmatter ==
    /\ pc = "call"
    /\ self' = _validate_frontmatter(self, arg.map)
    /\ pc' = "return"
    /\ UNCHANGED <<root, strict, skill_dirs, idx, errors, warnings, exit_code, arg, ret>>

NextFrontmatter == ValidateFrontmatter

SpecFrontmatter == InitFrontmatter /\ [][NextFrontmatter]_vars

(***************************************************************************)
(* Specification of _validate_name and _validate_description on a value    *)
(***************************************************************************)
NameAlphabet == {"a", "-", "_", "<", "\n", "A"}
DescAlphabet == {"I", " ", ".", ">", "x"}

NameSamples ==
    {N_tuning, N_foo_bar, N_My, S_claude, <<"a","n","t","h","r","o","p","i","c","-","t","o","o","l">>, <<"m","y","_","s","k","i","l","l">>,
     <<"c","l","a","u","d","e","-","a","n","t","h","r","o","p","i","c">>, <<"a","n","a","l","y","z","i","n","g","-","x">>, <<"<","c","l","a","u","d","e",">">>, <<"p","l","a","n","n","i","n","g","\n">>,
     Repeat("a", MAX_NAME_LENGTH), Repeat("a", MAX_NAME_LENGTH + 1),
     Repeat("<", MAX_NAME_LENGTH + 1), S_claude \o Repeat("_", MAX_NAME_LENGTH)}

DescSamples ==
    {D_good, D_plain, <<"f","o","r"," ","x">>, <<"W","e"," ","d","o"," ","x","."," ","W","h","e","n"," ","y">>, <<"H","e","l","p","s"," ","m","y"," ","<","b",">">>, <<"I","F"," ","Y","O","U"," ","x",".">>,
     Repeat(" ", MAX_DESCRIPTION_LENGTH + 1), Repeat("x", MAX_DESCRIPTION_LENGTH),
     Repeat("x", MAX_DESCRIPTION_LENGTH + 1), Repeat("<", MAX_DESCRIPTION_LENGTH + 1),
     <<"I"," ">> \o Repeat(".", MAX_DESCRIPTION_LENGTH)}

NameValues ==
    {Str(s) : s \in SeqsUpTo(NameAlphabet, MaxNameLen) \cup NameSamples}
    \cup {NonStr("int"), NonStr("NoneType"), NonStr("bool")}

DescValues ==
    {Str(s) : s \in SeqsUpTo(DescAlphabet, MaxDescLen) \cup DescSamples}
    \cup {NonStr("int"), NonStr("NoneType"), NonStr("list")}

\* The directory is named as the value says, or otherwise
DirNamesFor(value) == {N_tuning, N_foo_bar} \cup (IF value.t = "str" THEN {value.s} ELSE {})

InitField ==
    /\ pc = "call"
    /\ Pinned
    /\ \/ \E value \in NameValues : \E n \in DirNamesFor(value) :
            /\ arg = Arg("name", value, EmptyMap)
            /\ self = SkillValidator(PlainSkillDir(n))
       \/ \E value \in DescValues :
            /\ arg = Arg("description", value, EmptyMap)
            /\ self = SkillValidator(PlainSkillDir(N_tuning))
    /\ ret = NoRet

ValidateName ==
    /\ pc = "call"
    /\ arg.field = "name"
    /\ self' = _validate_name(self, arg.value)
    /\ pc' = "return"
    /\ UNCHANGED <<root, strict, skill_dirs, idx, errors, warnings, exit_code, arg, ret>>

ValidateDescription ==
    /\ pc = "call"
    /\ arg.field = "description"
    /\ self' = _validate_description(self, arg.value)
    /\ pc' = "return"
    /\ UNCHANGED <<root, strict, skill_dirs, idx, errors, warnings, exit_code, arg, ret>>

NextField == ValidateName \/ ValidateDescription

SpecField == InitField /\ [][NextField]_vars

(***************************************************************************)
(* Specification of _parse_skill_md on the text of SKILL.md                *)
(***************************************************************************)
ContentAlphabet == {"-", "\n", "x"}

InitParse ==
    /\ pc = "call"
    /\ Pinned
    /\ \E content \in SeqsUpTo(ContentAlphabet, MaxContentLen) :
          self = SkillValidator(SkillDir(<<PathName(RootPath), <<"d">>, N_tuning>>,
                     Dir(N_tuning, <<SkillMd(content, GoodYaml(N_tuning))>>)))
    /\ arg = NoArg
    /\ ret = Parsed(self, None, <<>>, <<>>)

ParseSkillMd ==
    /\ pc = "call"
    /\ ret' = _parse_skill_md(self)
    /\ self' = ret'.v
    /\ pc' = "return"
    /\ UNCHANGED <<root, strict, skill_dirs, idx, errors, warnings, exit_code, arg>>

NextParse == ParseSkillMd

SpecParse == InitParse /\ [][NextParse]_vars

(***************************************************************************)
(* Properties                                                              *)
(***************************************************************************)
Ids(diags) == {diags[i].message.id : i \in 1..Len(diags)}
CountId(diags, id) == Cardinality({i \in 1..Len(diags) : diags[i].message.id = id})
Has(diags, id) == id \in Ids(diags)
HasText(diags, id, text) ==
    \E i \in 1..Len(diags) : diags[i].message.id = id /\ diags[i].message.text = text
Count(conds) == Cardinality({i \in 1..Len(conds) : conds[i]})

E_UnexpectedDir == "Unexpected directory"
E_NoOpen == "SKILL.md must start with YAML frontmatter (---)"
E_NotClosed == "SKILL.md frontmatter not properly closed (missing closing ---)"
E_BadYaml == "Invalid YAML in frontmatter"
E_NotDict == "SKILL.md frontmatter must be a YAML dictionary"
E_NoName == "Missing required field 'name' in frontmatter"
E_NoDescription == "Missing required field 'description' in frontmatter"

\* Subdirectories of a skill directory that are not scripts, references, assets
Disallowed(node) ==
    Cardinality({i \in 1..Len(node.entries) :
                    /\ node.entries[i].kind = "dir"
                    /\ node.entries[i].name \notin {S_scripts, S_references, S_assets}})

\* Where the frontmatter of a readable SKILL.md fails to parse, or "none"
FailurePoint(md) ==
    IF ~StartsWith(md.content, OPEN_DELIM) THEN "open"
    ELSE IF Find(md.content, CLOSE_DELIM, 4) = -1 THEN "close"
    ELSE IF md.yaml.kind = "raise" THEN "yaml"
    ELSE IF md.yaml.t # "dict" THEN "mapping"
    ELSE "none"

HasReadableSkillMd(node) ==
    HasEntry(node, S_SKILL_MD) /\ Entry(node, S_SKILL_MD).kind = "file"

FrontmatterParses(node) ==
    HasReadableSkillMd(node) /\ FailurePoint(Entry(node, S_SKILL_MD)) = "none"

FailureMessage(point) ==
    CASE point = "open" -> E_NoOpen
      [] point = "close" -> E_NotClosed
      [] point = "yaml" -> E_BadYaml
      [] point = "mapping" -> E_NotDict

\* C1 as claimed: after validate() the number of structural errors equals the
\* number of disallowed subdirectories, whether or not the frontmatter parsed.
C1_AsClaimed ==
    pc = "return" =>
        CountId(self.errors, E_UnexpectedDir) = Disallowed(self.skill_dir.node)

\* C1 amended: after validate() the number of structural errors equals the
\* number of disallowed subdirectories when SKILL.md is there and its
\* frontmatter parses to a mapping, and is zero otherwise.
C1_StructuralErrors ==
    pc = "return" =>
        CountId(self.errors, E_UnexpectedDir) =
            (IF FrontmatterParses(self.skill_dir.node)
             THEN Disallowed(self.skill_dir.node) ELSE 0)

C1_Witness ==
    /\ pc = "return"
    /\ FrontmatterParses(self.skill_dir.node)
    /\ Disallowed(self.skill_dir.node) = 2
    /\ Len(self.skill_dir.node.entries) = 3
    /\ CountId(self.errors, E_UnexpectedDir) = 2

\* C3: when the frontmatter of a skill fails to parse at one of the four
\* failure points, validate() yields exactly one error, the one of that
\* failure point, and no warning: no field or body check has added anything.
C3_ParseFailureIsOnlyError ==
    (pc = "return" /\ HasReadableSkillMd(self.skill_dir.node)) =>
        LET point == FailurePoint(Entry(self.skill_dir.node, S_SKILL_MD))
        IN point # "none" =>
              /\ Len(self.errors) = 1
              /\ self.errors[1].message.id = FailureMessage(point)
              /\ self.warnings = <<>>

C3_Witness ==
    /\ pc = "return"
    /\ HasReadableSkillMd(self.skill_dir.node)
    /\ FailurePoint(Entry(self.skill_dir.node, S_SKILL_MD)) = "mapping"
    /\ Entry(self.skill_dir.node, S_SKILL_MD).content = C_links
    /\ Disallowed(self.skill_dir.node) >= 1
    /\ Len(self.errors) = 1

\* C4 as claimed: when 'name' or 'description' is absent, one missing-field
\* error is reported for each absent field and nothing else is reported.
C4_AsClaimed ==
    (pc = "return" /\ arg.field = "frontmatter"
        /\ ("name" \notin DOMAIN arg.map \/ "description" \notin DOMAIN arg.map)) =>
        /\ CountId(self.errors, E_NoName) = (IF "name" \in DOMAIN arg.map THEN 0 ELSE 1)
        /\ CountId(self.errors, E_NoDescription) =
               (IF "description" \in DOMAIN arg.map THEN 0 ELSE 1)
        /\ Ids(self.errors) \subseteq {E_NoName, E_NoDescription}
        /\ self.warnings = <<>>

\* C4 amended: when 'name' or 'description' is absent, exactly one error is
\* reported, for 'name' if it is absent and else for 'description', and no
\* other error or warning.
C4_OneMissingFieldError ==
    (pc = "return" /\ arg.field = "frontmatter"
        /\ ("name" \notin DOMAIN arg.map \/ "description" \notin DOMAIN arg.map)) =>
        /\ Len(self.errors) = 1
        /\ self.errors[1].message.id =
               (IF "name" \notin DOMAIN arg.map THEN E_NoName ELSE E_NoDescription)
        /\ self.warnings = <<>>

C4_Witness ==
    /\ pc = "return"
    /\ arg.field = "frontmatter"
    /\ DOMAIN arg.map = {"license", "metadata"}
    /\ arg.map["license"].t # "str"
    /\ arg.map["metadata"].t # "dict"
    /\ Ids(self.errors) = {E_NoName}

\* C2: main returns 1 exactly when there is an error, or --strict is set and
\* there is a warning, and 0 otherwise.
C2_ExitCode ==
    pc = "done" =>
        exit_code = (IF Len(ret.errors) >= 1 \/ (strict /\ Len(ret.warnings) >= 1)
                     THEN 1 ELSE 0)

C2_Witness ==
    /\ pc = "done"
    /\ strict
    /\ ret.errors = <<>>
    /\ Len(ret.warnings) >= 1
    /\ exit_code = 1

\* The paths of all directories of a tree that contain SKILL.md
RECURSIVE DirsWithSkillMd(_, _)
DirsWithSkillMd(path, node) ==
    (IF HasEntry(node, S_SKILL_MD) THEN {path} ELSE {})
    \cup UNION {DirsWithSkillMd(Append(path, node.entries[i].name), node.entries[i]) :
                   i \in {k \in 1..Len(node.entries) : node.entries[k].kind = "dir"}}

Discovered == {skill_dirs[i].path : i \in 1..Len(skill_dirs)}

\* C5: for a root that is a directory the scanner returns the root alone if
\* it contains SKILL.md, and otherwise exactly the directories root/domain/skill
\* that contain SKILL.md and where neither name starts with a dot; each once.
C5_Discovery ==
    (pc \in {"loop", "main", "done"} /\ root.node.kind = "dir") =>
        LET depth == Len(root.path)
            expected ==
                IF HasEntry(root.node, S_SKILL_MD) THEN {root.path}
                ELSE {p \in DirsWithSkillMd(root.path, root.node) :
                         /\ Len(p) = depth + 2
                         /\ ~IsHidden(p[depth + 1])
                         /\ ~IsHidden(p[depth + 2])}
        IN /\ Discovered = expected
           /\ Cardinality(Discovered) = Len(skill_dirs)

C5_Witness ==
    /\ pc = "loop"
    /\ ~HasEntry(root.node, S_SKILL_MD)
    /\ Len(skill_dirs) = 2
    /\ \E p \in DirsWithSkillMd(root.path, root.node) : Len(p) = Len(root.path) + 3
    /\ \E p \in DirsWithSkillMd(root.path, root.node) :
          Len(p) = Len(root.path) + 2 /\ p \notin Discovered

\* C6: when the root does not exist or is not a directory, validate() returns
\* one error and no warning, no skill is discovered or validated, and the
\* exit code is 1 whatever --strict is.
C6_BadRoot ==
    root.node.kind # "dir" =>
        /\ pc \in {"start", "main", "done"}
        /\ skill_dirs = <<>> /\ idx = 0 /\ self = NoValidator
        /\ errors = <<>> /\ warnings = <<>>
        /\ pc \in {"main", "done"} =>
              /\ Len(ret.errors) = 1
              /\ ret.errors[1].file_path = <<>>
              /\ ret.warnings = <<>>
        /\ pc = "done" => exit_code = 1

C6_Witness ==
    /\ pc = "done"
    /\ root.node.kind = "file"
    /\ ~strict
    /\ Len(ret.errors) = 1
    /\ exit_code = 1

\* What validating one skill directory on its own yields
OnItsOwn(skill_dir) == validate(SkillValidator(skill_dir))

\* The lists of the first n directories, each validated on its own, one after
\* the other
RECURSIVE OfFirst(_, _)
OfFirst(dirs, n) ==
    IF n = 0 THEN [errors |-> <<>>, warnings |-> <<>>]
    ELSE LET before == OfFirst(dirs, n - 1)
             own == OnItsOwn(dirs[n])
         IN [errors |-> before.errors \o own.errors,
             warnings |-> before.warnings \o own.warnings]

\* C10: every discovered skill is validated whatever the skills before it
\* yielded, and the error list and the warning list of the run are the
\* concatenations, in discovery order, of the lists each skill yields on its own.
C10_Aggregation ==
    /\ pc = "loop" =>
          /\ errors = OfFirst(skill_dirs, idx - 1).errors
          /\ warnings = OfFirst(skill_dirs, idx - 1).warnings
    /\ (pc \in {"main", "done"} /\ root.node.kind = "dir") =>
          /\ skill_dirs # <<>> => idx = Len(skill_dirs) + 1
          /\ ret = OfFirst(skill_dirs, Len(skill_dirs))

C10_Witness ==
    /\ pc = "done"
    /\ Len(skill_dirs) = 3
    /\ OnItsOwn(skill_dirs[1]).errors # <<>>
    /\ OnItsOwn(skill_dirs[2]).warnings # <<>>
    /\ OnItsOwn(skill_dirs[3]).errors # <<>>
    /\ Len(ret.errors) = Len(OnItsOwn(skill_dirs[1]).errors) + Len(OnItsOwn(skill_dirs[3]).errors)
    /\ Len(ret.warnings) >= 1

E_NameType == "Skill name must be a string, got"
E_NameLength == "Skill name exceeds maximum length"
E_NameFormat == "Skill name must contain only lowercase letters, numbers, and hyphens"
E_NameReserved == "Skill name cannot contain reserved word"
E_NameXml == "Skill name cannot contain XML tags"
E_NameMismatch == "Skill name does not match directory name"
W_NameGerund == "Consider using gerund form (verb-ing) for skill name"
E_DescType == "Skill description must be a string, got"
E_DescEmpty == "Skill description cannot be empty"
E_DescLength == "Skill description exceeds maximum length"
E_DescXml == "Skill description cannot contain XML tags"
W_DescTrigger == "Description should include clear 'when to use' triggers"
W_DescPerson == "Description should use third person"
W_DescSentences == "Description should include both WHAT the skill does and WHEN to use it"

HasAngle(s) == \E i \in 1..Len(s) : s[i] \in {"<", ">"}

\* C7: a name that is a string matching ^[a-z0-9-]+$, at most 64 long, without
\* 'anthropic', 'claude', '<' or '>', and equal to the directory's name gets
\* no error from _validate_name.
C7_ValidNameNoErrors ==
    (pc = "return" /\ arg.field = "name" /\ arg.value.t = "str") =>
        LET name == arg.value.s
        IN (/\ NamePattern(name)
            /\ Len(name) <= 64
            /\ ~Contains(name, S_anthropic)
            /\ ~Contains(name, S_claude)
            /\ ~HasAngle(name)
            /\ name = PathName(self.skill_dir.path)) => self.errors = <<>>

C7_Witness ==
    /\ pc = "return"
    /\ arg.field = "name"
    /\ arg.value = Str(Repeat("a", 64))
    /\ PathName(self.skill_dir.path) = arg.value.s
    /\ self.errors = <<>>
    /\ Len(self.warnings) = 1

\* The conditions of the field table, on a string
NameErrorConditions(name, dir_name) ==
    <<Len(name) > 64,
      ~NamePattern(name),
      Contains(name, S_anthropic),
      Contains(name, S_claude),
      HasAngle(name),
      name # dir_name>>

NameWarningConditions(name) ==
    <<~EndsWith(name, <<"i","n","g">>)
        /\ \A i \in 1..Len(GERUND_PREFIXES) : ~StartsWith(name, GERUND_PREFIXES[i])>>

DescErrorConditions(d) ==
    <<StripIsEmpty(d), Len(d) > 1024, HasAngle(d)>>

DescWarningConditions(d) ==
    <<\A i \in 1..Len(TRIGGER_KEYWORDS) : ~Contains(Lower(d), TRIGGER_KEYWORDS[i]),
      \E i \in 1..Len(FIRST_PERSON_WORDS) : Contains(Lower(d), FIRST_PERSON_WORDS[i]),
      \A i \in 1..Len(d) : d[i] # ".">>

NameDiagnostics(v) ==
    <<Has(v.errors, E_NameLength),
      Has(v.errors, E_NameFormat),
      HasText(v.errors, E_NameReserved, S_anthropic),
      HasText(v.errors, E_NameReserved, S_claude),
      Has(v.errors, E_NameXml),
      Has(v.errors, E_NameMismatch)>>

DescErrorDiagnostics(v) ==
    <<Has(v.errors, E_DescEmpty), Has(v.errors, E_DescLength), Has(v.errors, E_DescXml)>>

DescWarningDiagnostics(v) ==
    <<Has(v.warnings, W_DescTrigger), Has(v.warnings, W_DescPerson),
      Has(v.warnings, W_DescSentences)>>

Implies(conds, diags) == \A i \in 1..Len(conds) : conds[i] => diags[i]

RECURSIVE Join(_)
Join(lines) ==
    IF lines = <<>> THEN <<>>
    ELSE IF Len(lines) = 1 THEN lines[1]
    ELSE lines[1] \o <<"\n">> \o Join(Tail(lines))

DELIM_LINE == <<"-","-","-">>

\* C8: frontmatter is recognised exactly when the first line of the file is
\* '---' and a later line is '---'; the block closes at the first such line,
\* the frontmatter text is what lies strictly between the two lines and the
\* body is what follows the closing line.
C8_FrontmatterBlock ==
    pc = "return" =>
        LET content == Entry(self.skill_dir.node, S_SKILL_MD).content
            lines == Split(content, "\n")
            closing == {j \in 2..Len(lines) : lines[j] = DELIM_LINE}
            block == lines[1] = DELIM_LINE /\ closing # {}
            close == CHOOSE j \in closing : \A k \in closing : j <= k
            recognised == ~Has(self.errors, E_NoOpen) /\ ~Has(self.errors, E_NotClosed)
        IN /\ recognised = block
           /\ block =>
                 /\ ret.frontmatter_text = Join(SubSeq(lines, 2, close - 1))
                 /\ ret.body = Join(SubSeq(lines, close + 1, Len(lines)))

====
